---------------------------- MODULE Spec2Model ----------------------------
(***************************************************************************)
(* ref/070-Totient_permutation/plotplot.py: the closed forms a, p1p2 and b *)
(* and the script that plots n/a(n) and n/b(n,gap) and scans for the gap   *)
(* thresholds.                                                             *)
(*                                                                         *)
(* The script computes in IEEE-754 binary64 (Python float, numpy float64). *)
(* The model computes the same values: a float is a sign, a 53-bit         *)
(* mantissa and an exponent, and every operation rounds its exact result   *)
(* to nearest, ties to even.  Mantissas and the exact intermediate results *)
(* are naturals of any size, kept as tuples of 14-bit limbs.               *)
(***************************************************************************)
EXTENDS Integers, Sequences, FiniteSets, TLC

(***************************************************************************)
(* Naturals of any size: a tuple of limbs below W, least significant       *)
(* first, without leading zero limbs; zero is the empty tuple.             *)
(***************************************************************************)
LimbBits == 14
W == 2^LimbBits

\* The number of bits of d, for d below 2^16.
BitLen4(d) == IF d < 4 THEN (IF d < 2 THEN d ELSE 2) ELSE (IF d < 8 THEN 3 ELSE 4)
BitLen8(d) == IF d < 16 THEN BitLen4(d) ELSE 4 + BitLen4(d \div 16)
BitLen(d) == IF d < 256 THEN BitLen8(d) ELSE 8 + BitLen8(d \div 256)

\* The element of a one-element set.  {e(v) : v \in {d}} is e of the value
\* of d, with d evaluated once.
Only(S) == CHOOSE v \in S : TRUE

Max(i, j) == IF i >= j THEN i ELSE j
Min(i, j) == IF i <= j THEN i ELSE j

Limb(u, i) == IF i >= 1 /\ i <= Len(u) THEN u[i] ELSE 0

RECURSIVE NTrim(_)
NTrim(u) ==
  IF u = <<>> THEN <<>>
  ELSE IF u[Len(u)] # 0 THEN u
  ELSE NTrim(SubSeq(u, 1, Len(u) - 1))

RECURSIVE NFromInt(_)
NFromInt(i) == IF i = 0 THEN <<>> ELSE <<i % W>> \o NFromInt(i \div W)

RECURSIVE NToInt(_)
NToInt(u) == IF u = <<>> THEN 0 ELSE u[1] + W * NToInt(Tail(u))

\* -1, 0 or 1 as u is below, equal to or above v, deciding from limb i down.
RECURSIVE NCmpFrom(_, _, _)
NCmpFrom(u, v, i) ==
  IF i = 0 THEN 0
  ELSE IF u[i] < v[i] THEN -1
  ELSE IF u[i] > v[i] THEN 1
  ELSE NCmpFrom(u, v, i - 1)

NCmp(u, v) ==
  IF Len(u) < Len(v) THEN -1
  ELSE IF Len(u) > Len(v) THEN 1
  ELSE NCmpFrom(u, v, Len(u))

RECURSIVE NAddFrom(_, _, _, _)
NAddFrom(u, v, i, c) ==
  IF i > Len(u) /\ i > Len(v)
  THEN (IF c = 0 THEN <<>> ELSE <<c>>)
  ELSE LET t == Limb(u, i) + Limb(v, i) + c
       IN  <<t % W>> \o NAddFrom(u, v, i + 1, t \div W)

NAdd(u, v) == NAddFrom(u, v, 1, 0)

\* u - v for u >= v.
RECURSIVE NSubFrom(_, _, _, _)
NSubFrom(u, v, i, c) ==
  IF i > Len(u) THEN <<>>
  ELSE LET t == u[i] - Limb(v, i) - c
       IN  IF t < 0 THEN <<t + W>> \o NSubFrom(u, v, i + 1, 1)
           ELSE <<t>> \o NSubFrom(u, v, i + 1, 0)

NSub(u, v) == NTrim(NSubFrom(u, v, 1, 0))

\* u * d for one limb d.
RECURSIVE NMulLimbFrom(_, _, _, _)
NMulLimbFrom(u, d, i, c) ==
  IF i > Len(u) THEN (IF c = 0 THEN <<>> ELSE <<c>>)
  ELSE LET t == u[i] * d + c
       IN  <<t % W>> \o NMulLimbFrom(u, d, i + 1, t \div W)

NMulLimb(u, d) == IF d = 0 THEN <<>> ELSE NMulLimbFrom(u, d, 1, 0)

NShlLimbs(u, j) == IF u = <<>> THEN <<>> ELSE [i \in 1..j |-> 0] \o u

RECURSIVE NMulFrom(_, _, _)
NMulFrom(u, v, j) ==
  IF j > Len(v) THEN <<>>
  ELSE NAdd(NShlLimbs(NMulLimb(u, v[j]), j - 1), NMulFrom(u, v, j + 1))

\* The sum of the products u[i] * v[k + 1 - i] for i from lo to hi: column k of
\* the product.  Up to MaxCol such products fit TLC's integers.
RECURSIVE ColSum(_, _, _, _, _)
ColSum(u, v, k, lo, hi) ==
  IF lo > hi THEN 0 ELSE u[lo] * v[k + 1 - lo] + ColSum(u, v, k, lo + 1, hi)

\* The limbs of the number whose columns, from i on, are cols, with carry c.
RECURSIVE NCarryFrom(_, _, _)
NCarryFrom(cols, i, c) ==
  IF i > Len(cols) THEN NFromInt(c)
  ELSE LET t == cols[i] + c
       IN  <<t % W>> \o NCarryFrom(cols, i + 1, t \div W)

MaxCol == 7

NMul(u, v) ==
  IF u = <<>> \/ v = <<>> THEN <<>>
  ELSE IF Len(u) > MaxCol /\ Len(v) > MaxCol THEN NMulFrom(u, v, 1)
  ELSE NCarryFrom([k \in 1..(Len(u) + Len(v) - 1) |->
                     ColSum(u, v, k, Max(1, k + 1 - Len(v)), Min(k, Len(u)))], 1, 0)

\* u * 2^s and floor(u / 2^s).
NShl(u, s) == NShlLimbs(NMulLimb(u, 2^(s % LimbBits)), s \div LimbBits)

NShr(u, s) ==
  LET q == s \div LimbBits
      r == s % LimbBits
      lo == 2^r
      hi == 2^(LimbBits - r)
  IN  IF q >= Len(u) THEN <<>>
      ELSE NTrim([i \in 1..(Len(u) - q) |->
                    (u[i + q] \div lo) + (Limb(u, i + q + 1) % lo) * hi])

\* u mod 2^s.
NLow(u, s) ==
  LET q == s \div LimbBits
      r == s % LimbBits
  IN  IF q >= Len(u) THEN u
      ELSE NTrim([i \in 1..(q + 1) |-> IF i <= q THEN u[i] ELSE u[i] % (2^r)])


NBitLen(u) ==
  IF u = <<>> THEN 0 ELSE LimbBits * (Len(u) - 1) + BitLen(u[Len(u)])

NIsOdd(u) == u # <<>> /\ u[1] % 2 = 1

(***************************************************************************)
(* Long division (Knuth's algorithm D).  The divisor is shifted so that    *)
(* its top limb has its top bit set; a quotient limb guessed from the top  *)
(* limbs is then at most 2 too large, and is stepped down until it fits.   *)
(***************************************************************************)
\* <<q, d * q>> for the largest q at or below the guess q with d * q <= r.
RECURSIVE QFit(_, _, _)
QFit(r, d, q) ==
  LET dq == NMulLimb(d, q)
  IN  IF NCmp(dq, r) > 0 THEN QFit(r, d, q - 1) ELSE <<q, dq>>

QDigit(r, d) ==
  LET j == Len(d)
      top == Limb(r, j + 1) * W + r[j]
  IN  IF Len(r) < j THEN <<0, <<>> >>
      ELSE QFit(r, d, Min(W - 1, top \div d[j]))

\* One step of the division: limb st.i of u is brought down to the remainder
\* st.r, and the quotient limb found is put in front of st.q.
NDivStep(u, d, st) ==
  LET r1 == NTrim(<<u[st.i]>> \o st.r)
      qd == QDigit(r1, d)
  IN  [i |-> st.i - 1, r |-> NSub(r1, qd[2]), q |-> <<qd[1]>> \o st.q]

RECURSIVE NDivFrom(_, _, _)
NDivFrom(u, d, st) ==
  IF st.i = 0 THEN st ELSE NDivFrom(u, d, NDivStep(u, d, st))

\* <<floor(u / d), whether d divides u>> for d > 0.  The top Len(d) - 1 limbs
\* of u are below d: they start the remainder.
NDivMod(u, d) ==
  LET sh == LimbBits - BitLen(d[Len(d)])
      un == NShl(u, sh)
      dn == NShl(d, sh)
      i0 == Len(un) - Len(dn) + 1
      st == NDivFrom(un, dn, [i |-> i0, r |-> SubSeq(un, i0 + 1, Len(un)),
                              q |-> <<>>])
  IN  IF NCmp(u, d) < 0 THEN << <<>>, u = <<>> >>
      ELSE <<NTrim(st.q), st.r = <<>> >>

NDiv(u, d) == NDivMod(u, d)[1]

(***************************************************************************)
(* floor(sqrt(u)) by Newton's iteration from above: the start is built     *)
(* from the square root of the top two limbs at most.                      *)
(***************************************************************************)
RECURSIVE ISqrtIter(_, _)
ISqrtIter(v, s) ==
  LET s1 == (s + v \div s) \div 2
  IN  IF s1 >= s THEN s ELSE ISqrtIter(v, s1)

ISqrt(v) == IF v = 0 THEN 0 ELSE ISqrtIter(v, W)

\* Every s is at or above floor(sqrt(u)): the first with s * s <= u is it.
RECURSIVE NSqrtIter(_, _)
NSqrtIter(u, s) ==
  IF NCmp(NMul(s, s), u) <= 0 THEN s
  ELSE NSqrtIter(u, NShr(NAdd(s, NDiv(u, s)), 1))

NSqrt(u) ==
  LET bl == NBitLen(u)
      h0 == Max(0, bl - 2 * LimbBits)
      h == h0 + (h0 % 2)
      top == NToInt(NShr(u, h))
  IN  IF u = <<>> THEN <<>>
      ELSE NSqrtIter(u, NShl(NFromInt(ISqrt(top) + 1), h \div 2))

(***************************************************************************)
(* binary64.  A finite float is neg, m, e with the value (-1)^neg * m *    *)
(* 2^e, where m is zero (then e = 0 and neg is FALSE: the sign of a zero   *)
(* is not kept) or has exactly MantBits bits.  The exponent is not bounded:*)
(* the script's values are far from overflow and from the subnormals.      *)
(* An operation on an operand that is not finite gives a NaN.              *)
(* An operation takes the values of its operands first: in                 *)
(* Only({e : x \in {xa}}) the operand xa is evaluated once, for x.          *)
(***************************************************************************)
MantBits == 53

\* The least mantissa, 2^(MantBits - 1).
TopBit == <<0, 0, 0, 2 ^ (MantBits - 1 - 3 * LimbBits)>>

FZero == [cls |-> "fin", neg |-> FALSE, m |-> <<>>, e |-> 0]
FNaN == [cls |-> "nan", neg |-> FALSE, m |-> <<>>, e |-> 0]
FInf(neg) == [cls |-> "inf", neg |-> neg, m |-> <<>>, e |-> 0]
FFin(neg, m, e) == [cls |-> "fin", neg |-> neg, m |-> m, e |-> e]

IsFin(x) == x.cls = "fin"
IsZero(x) == x.cls = "fin" /\ x.m = <<>>

\* The float nearest to (-1)^neg * u * 2^e, ties to the even mantissa.
RoundUp(q, c) == IF c > 0 \/ (c = 0 /\ NIsOdd(q)) THEN NAdd(q, <<1>>) ELSE q

FRound(neg, ua, ea) ==
  Only({LET s == NBitLen(u) - MantBits
        IN  IF u = <<>> THEN FZero
            ELSE IF s <= 0 THEN FFin(neg, NShl(u, -s), e + s)
            ELSE Only({IF NBitLen(q1) > MantBits
                         THEN FFin(neg, NShr(q1, 1), e + s + 1)
                         ELSE FFin(neg, q1, e + s) :
                       q1 \in {RoundUp(NShr(u, s),
                                       NCmp(NLow(u, s), NShl(<<1>>, s - 1)))}}) :
        u \in {ua}, e \in {ea}})

\* float(i) of a Python int.
FFromInt(ia) ==
  Only({FRound(i < 0, NFromInt(IF i < 0 THEN -i ELSE i), 0) : i \in {ia}})

FNeg(xa) ==
  Only({IF IsFin(x) /\ ~IsZero(x) THEN [x EXCEPT !.neg = ~x.neg] ELSE x :
        x \in {xa}})
FAbs(x) == [x EXCEPT !.neg = FALSE]

\* -1, 0 or 1 as |x| is below, equal to or above |y|, for finite x and y.
MagCmp(x, y) ==
  IF IsZero(x) THEN (IF IsZero(y) THEN 0 ELSE -1)
  ELSE IF IsZero(y) THEN 1
  ELSE IF x.e < y.e THEN -1
  ELSE IF x.e > y.e THEN 1
  ELSE NCmp(x.m, y.m)

\* -1, 0 or 1 as x is below, equal to or above y, for finite x and y.
FCmp(x, y) ==
  IF x.neg # y.neg THEN (IF x.neg THEN -1 ELSE 1)
  ELSE IF x.neg THEN MagCmp(y, x)
  ELSE MagCmp(x, y)

\* x > y, x < y, x >= y: a comparison with a NaN is false.
FGt(xa, ya) ==
  \E x \in {xa}, y \in {ya} :
    IF x.cls = "nan" \/ y.cls = "nan" THEN FALSE
    ELSE IF x.cls = "inf" THEN ~x.neg /\ ~(y.cls = "inf" /\ ~y.neg)
    ELSE IF y.cls = "inf" THEN y.neg
    ELSE FCmp(x, y) > 0
FLt(x, y) == FGt(y, x)
FGe(xa, ya) ==
  \E x \in {xa}, y \in {ya} : x.cls # "nan" /\ y.cls # "nan" /\ ~FGt(y, x)
FLe(x, y) == FGe(y, x)

FMul(xa, ya) ==
  Only({IF ~IsFin(x) \/ ~IsFin(y) THEN FNaN
        ELSE FRound(x.neg # y.neg, NMul(x.m, y.m), x.e + y.e) :
        x \in {xa}, y \in {ya}})

\* The sum of finite nonzero hi and lo, hi of no smaller exponent.  The
\* mantissas are aligned and added or subtracted exactly; when lo lies wholly
\* below the rounding position of hi it only makes the result inexact.
FAddOrdered(hi, lo) ==
  LET d == hi.e - lo.e
      far == d > MantBits + 3
      e == IF far THEN hi.e - 4 ELSE lo.e
  IN  Only({Only({IF hi.neg = lo.neg THEN FRound(hi.neg, NAdd(u, v), e)
                  ELSE IF c = 0 THEN FZero
                  ELSE IF c > 0 THEN FRound(hi.neg, NSub(u, v), e)
                  ELSE FRound(lo.neg, NSub(v, u), e) :
                  c \in {NCmp(u, v)}}) :
            u \in {IF far THEN NShl(hi.m, 4) ELSE NShl(hi.m, d)},
            v \in {IF far THEN <<1>> ELSE lo.m}})

FAdd(xa, ya) ==
  Only({IF ~IsFin(x) \/ ~IsFin(y) THEN FNaN
        ELSE IF IsZero(x) THEN y
        ELSE IF IsZero(y) THEN x
        ELSE IF x.e >= y.e THEN FAddOrdered(x, y)
        ELSE FAddOrdered(y, x) :
        x \in {xa}, y \in {ya}})

FSub(x, y) == FAdd(x, FNeg(y))

\* x / y for finite x and finite nonzero y: the quotient of the mantissas to
\* MantBits + 3 bits or more, with one more bit that says whether it is inexact.
\* By a power of two the quotient is exact, x with another exponent.
FDiv(xa, ya) ==
  Only({IF ~IsFin(x) \/ ~IsFin(y) \/ IsZero(y) THEN FNaN
        ELSE IF IsZero(x) THEN FZero
        ELSE IF y.m = TopBit
          THEN FFin(x.neg # y.neg, x.m, x.e - y.e - (MantBits - 1))
        ELSE Only({FRound(x.neg # y.neg,
                          NAdd(NShl(qr[1], 1), IF qr[2] THEN <<>> ELSE <<1>>),
                          x.e - y.e - (MantBits + 3) - 1) :
                   qr \in {NDivMod(NShl(x.m, MantBits + 3), y.m)}}) :
        x \in {xa}, y \in {ya}})

\* The square root of a finite x >= 0, correctly rounded: the integer square
\* root of the mantissa shifted to an even exponent, with the inexact bit.
SqrtWithInexact(u) ==
  Only({NAdd(NShl(s, 1), IF NMul(s, s) = u THEN <<>> ELSE <<1>>) :
        s \in {NSqrt(u)}})

FSqrtFin(xa) ==
  Only({LET sh == (x.e % 2) + MantBits + 3
        IN  IF IsZero(x) THEN FZero
            ELSE Only({FRound(FALSE, SqrtWithInexact(u), ((x.e - sh) \div 2) - 1) :
                       u \in {NShl(x.m, sh)}}) :
        x \in {xa}})

(***************************************************************************)
(* The operations as Python and numpy apply them.                          *)
(***************************************************************************)
\* np.sqrt of a float64: a NaN (and a warning, no exception) below zero.
NpSqrt(xa) ==
  Only({IF x.cls = "nan" THEN FNaN
        ELSE IF x.cls = "inf" THEN (IF x.neg THEN FNaN ELSE x)
        ELSE IF x.neg THEN FNaN
        ELSE FSqrtFin(x) :
        x \in {xa}})

\* x / y with a float64 operand: dividing by zero gives an infinity or a NaN
\* (and a warning, no exception).
NpDiv(xa, ya) ==
  Only({IF ~IsFin(x) \/ ~IsFin(y) THEN FNaN
        ELSE IF IsZero(y) THEN (IF IsZero(x) THEN FNaN ELSE FInf(x.neg))
        ELSE FDiv(x, y) :
        x \in {xa}, y \in {ya}})

(***************************************************************************)
(* x ** y of Python floats, which is pow of the C library: taken here as   *)
(* the correctly rounded power, for finite x >= 1 and y >= 0 (and x = 0).  *)
(* The power is exp(y * ln x), computed on fixed-point numbers with        *)
(* PowBits fraction bits (a natural u stands for u / 2^PowBits), each step *)
(* rounding down; the error, below 2^-80, is far below half a unit of the  *)
(* last place of the result unless that lies that close to the middle of   *)
(* two floats.                                                             *)
(***************************************************************************)
PowBits == 98

XOne == NShl(<<1>>, PowBits)
XMul(u, v) == NShr(NMul(u, v), PowBits)

\* atanh(z) = z + z^3/3 + z^5/5 + ..., for 0 <= z <= 1/3: st.sum is the sum
\* of the terms before z^j / j, for j = st.j, and st.p is z^j; z2 is z^2.
RECURSIVE XAtanhFrom(_, _)
XAtanhFrom(z2, st) ==
  IF st.p = <<>> THEN st.sum
  ELSE XAtanhFrom(z2, [p |-> XMul(st.p, z2), j |-> st.j + 2,
                       sum |-> NAdd(st.sum, NDiv(st.p, <<st.j>>))])

XAtanh(z) == XAtanhFrom(XMul(z, z), [p |-> z, j |-> 1, sum |-> <<>>])

\* ln 2 = 2 atanh(1/3).
XLn2 == NShl(XAtanh(NDiv(XOne, <<3>>)), 1)

\* ln x for a float x >= 1: x = f * 2^t with 1 <= f < 2, and
\* ln f = 2 atanh((f - 1) / (f + 1)).
XLn(x, ln2) ==
  LET one == NShl(<<1>>, MantBits - 1)
      z == NDiv(NShl(NSub(x.m, one), PowBits), NAdd(x.m, one))
      t == x.e + MantBits - 1
  IN  NAdd(NShl(XAtanh(z), 1), NMul(NFromInt(t), ln2))

\* exp(r) = 1 + r + r^2/2 + ..., for 0 <= r < ln 2: st.sum is the sum of the
\* terms before r^j / j!, for j = st.j, and st.p is r^j / j!.
RECURSIVE XExpFrom(_, _)
XExpFrom(r, st) ==
  IF st.p = <<>> THEN st.sum
  ELSE XExpFrom(r, [p |-> NDiv(XMul(st.p, r), <<st.j + 1>>), j |-> st.j + 1,
                    sum |-> NAdd(st.sum, st.p)])

XExp(r) == XExpFrom(r, [p |-> XOne, j |-> 0, sum |-> <<>>])

\* exp(t) for a fixed-point t >= 0, as a float: t = q ln 2 + r with
\* 0 <= r < ln 2, and exp(t) = 2^q exp(r).
XExpFloat(t, ln2) ==
  Only({FRound(FALSE, XExp(NSub(t, NMul(q, ln2))), NToInt(q) - PowBits) :
          q \in {NDiv(t, ln2)}})

\* y ln x as a fixed-point number.
XMulLn(x, y, ln2) ==
  IF y.e >= 0 THEN NShl(NMul(XLn(x, ln2), y.m), y.e)
  ELSE NShr(NMul(XLn(x, ln2), y.m), -y.e)

\* x ** y for finite x >= 1 and y >= 0.
FPowReal(x, y) ==
  Only({Only({XExpFloat(t, ln2) : t \in {XMulLn(x, y, ln2)}}) : ln2 \in {XLn2}})

\* The float 2^e.
FTwoPow(e) == FFin(FALSE, TopBit, e - MantBits + 1)
FHalf == FTwoPow(-1)
FOne == FTwoPow(0)

\* x ** y with a float exponent, as in n**(1/k).  Below zero the power of a
\* fraction is a complex number in Python: the script never takes one, and
\* the model gives a NaN.  x ** 0.5 is the correctly rounded square root.
PyPow(x, y) ==
  IF ~IsFin(x) \/ ~IsFin(y) \/ x.neg \/ y.neg THEN FNaN
  ELSE IF IsZero(y) THEN FOne
  ELSE IF IsZero(x) THEN FZero
  ELSE IF y = FHalf THEN FSqrtFin(x)
  ELSE IF FCmp(x, FOne) < 0 THEN FNaN
  ELSE FPowReal(x, y)

\* u^k for a natural u and an int k >= 0.
RECURSIVE NPow(_, _)
NPow(u, k) == IF k = 0 THEN <<1>> ELSE NMul(u, NPow(u, k - 1))

\* x ** k with an int exponent k >= 1, as in (...)**k: the exact power,
\* rounded once.
PyPowInt(x, k) ==
  IF ~IsFin(x) THEN FNaN
  ELSE FRound(x.neg /\ k % 2 = 1, NPow(x.m, k), x.e * k)

(***************************************************************************)
(* plotplot.py, lines 14-28.  rt is a float, k and gap are Python ints.    *)
(***************************************************************************)
\* Line 21, b = 2*rt-k, and the argument of the square root of line 22,
\* b*b+4*k*rt.
Lin(rt, k) == FSub(FMul(FFromInt(2), rt), FFromInt(k))
\* Line 22 with b*b-4*k*rt under the square root.
Disc_Minus(rt, k) ==
  Only({FSub(FMul(b_, b_), FMul(FFromInt(4 * k), rt)) : b_ \in {Lin(rt, k)}})

Disc(rt, k) ==
  Only({FAdd(FMul(b_, b_), FMul(FFromInt(4 * k), rt)) : b_ \in {Lin(rt, k)}})

\* Line 22 with b in the place of -b.
p1p2_PlusB(rt, k) ==
  LET b_ == Lin(rt, k)
      x_ == NpDiv(FAdd(b_, NpSqrt(Disc(rt, k))), FFromInt(2))
      y_ == FSub(FFromInt(k), x_)
  IN  <<FSub(rt, y_), FAdd(rt, x_)>>

\* Line 23 with y = x-k.
p1p2_YSwapped(rt, k) ==
  LET b_ == Lin(rt, k)
      x_ == NpDiv(FAdd(FNeg(b_), NpSqrt(Disc(rt, k))), FFromInt(2))
      y_ == FSub(x_, FFromInt(k))
  IN  <<FSub(rt, y_), FAdd(rt, x_)>>

p1p2(rt, k) ==
  LET b_ == Lin(rt, k)
      x_ == NpDiv(FAdd(FNeg(b_), NpSqrt(Disc(rt, k))), FFromInt(2))
      y_ == FSub(FFromInt(k), x_)
  IN  <<FSub(rt, y_), FAdd(rt, x_)>>

\* Line 28 with (p1-1)*(p2+1).
b_PlusOne(rt, gap) ==
  Only({FMul(FSub(p[1], FFromInt(1)), FAdd(p[2], FFromInt(1))) :
          p \in {p1p2(rt, gap)}})

\* Line 28 with (p1+1)*(p2-1).
b_OnePlus(rt, gap) ==
  Only({FMul(FAdd(p[1], FFromInt(1)), FSub(p[2], FFromInt(1))) :
          p \in {p1p2(rt, gap)}})

\* Line 27 binds the pair once: p ranges over the one value of p1p2(rt, gap).
b(rt, gap) ==
  Only({FMul(FSub(p[1], FFromInt(1)), FSub(p[2], FFromInt(1))) :
          p \in {p1p2(rt, gap)}})

\* Line 15 with the exponent 2 in the place of k.
a_Squared(n, k) ==
  Only({PyPowInt(FSub(root, FFromInt(1)), 2) :
          root \in {PyPow(n, FDiv(FFromInt(1), FFromInt(k)))}})

\* Lines 14-15.  n is the float of the argument (an int is converted by **),
\* k is a Python int >= 1; 1/k is the quotient of two ints, a float.
a(n, k) ==
  Only({PyPowInt(FSub(root, FFromInt(1)), k) :
          root \in {PyPow(n, FDiv(FFromInt(1), FFromInt(k)))}})


(***************************************************************************)
(* The script's values.  None is Python's None; a list built from a range  *)
(* is kept as the range, [lo, hi, st], whose i-th element (from 0) is      *)
(* lo + i*st.                                                              *)
(***************************************************************************)
None == <<>>

Range(lo, hi, st) == [lo |-> lo, hi |-> hi, st |-> st]
XLen(xs) == IF xs.hi <= xs.lo THEN 0 ELSE (xs.hi - xs.lo + xs.st - 1) \div xs.st
XAt(xs, ix) == xs.lo + ix * xs.st

\* The first index of the slice xs[s:]: a negative s counts from the end,
\* and the slice is empty when s is beyond the end.
SliceStart(xs, s) == IF s < 0 THEN Max(0, XLen(xs) + s) ELSE Min(s, XLen(xs))

\* Line 89 with gap//2, and with gap.
GapIndex_Half(g) == g \div 2
GapIndex_NoDiv(g) == g

\* gap//4 of line 89 (floor division).
GapIndex(g) == g \div 4

\* n/b(rt, k), lines 61, 69, 70, 79, 83, 90, 94: rt and b(rt, k) are
\* numpy floats, and so is the quotient.  In the actions den is b(rt, k),
\* evaluated once, and the quotient is n/den.
Ratio(nn, r_, kk) == NpDiv(FFromInt(nn), b(r_, kk))

\* The call of p1p2 whose square root was taken last: its arguments and the
\* argument b*b+4*k*rt of the square root.
SqrtArg(r_, kk) == [rt |-> r_, k |-> kk, d |-> Disc(r_, kk)]

\* Lines 82 and 93 with k -= 4.
StepBack_Four(kk) == kk - 4

\* k -= 2 of lines 82 and 93.
StepBack(kk) == kk - 2

\* r > ref of lines 80, 81, 91, 92.
Above(r_, ref) == FGt(r_, ref)

\* The values of n of the loop of line 59.
LoopN == <<10000000, 7500000, 5000000>>

(***************************************************************************)
(* The state of the script.  pc is the line about to run; "done" after     *)
(* line 102 and "fault" after an exception, which nothing catches.  den is *)
(* the last divisor evaluated, disc the last argument of the square root   *)
(* of line 22 (with the rt and k of the call), y the last element appended  *)
(* to the list y, dec the number of times the body of the current while    *)
(* loop has run.  arg and call are the arguments and the result of a       *)
(* single call of a, p1p2 or b.                                            *)
(***************************************************************************)
VARIABLES pc, n, rt, x, i, j, k, r, gap, r75min, r50min, den, disc, y, dec,
          arg, call

vars == <<pc, n, rt, x, i, j, k, r, gap, r75min, r50min, den, disc, y, dec,
          arg, call>>

\* The number of elements at each end of the list of line 44 (4999999
\* elements) on which the map of line 45 is followed.
PlotCap == 60

\* Before line 33.
Init ==
  /\ pc = "L33"
  /\ n = None /\ rt = None /\ x = None /\ i = 0 /\ j = 0 /\ k = None
  /\ r = None /\ gap = None /\ r75min = None /\ r50min = None
  /\ den = None /\ disc = None /\ y = None /\ dec = 0
  /\ arg = None /\ call = None

\* Lines 33-35.
L33 ==
  /\ pc = "L33"
  /\ n' = 100 /\ x' = Range(3, 100, 1) /\ i' = 0 /\ pc' = "L36"
  /\ UNCHANGED <<rt, j, k, r, gap, r75min, r50min, den, disc, y, dec, arg, call>>

\* One element of the map of line 36 or 45, lambda n: n/a(n): the quotient
\* of an int by a Python float, which raises ZeroDivisionError on zero.
MapA(here, ix) ==
  LET d == a(FFromInt(XAt(x, i)), 2)
  IN  /\ den' = d
      /\ IF IsZero(d)
           THEN pc' = "fault" /\ UNCHANGED <<y, i>>
           ELSE pc' = here /\ y' = FDiv(FFromInt(XAt(x, i)), d) /\ i' = ix
      /\ UNCHANGED <<n, rt, x, j, k, r, gap, r75min, r50min, disc, dec, arg, call>>

\* Line 36, one element.
L36 == pc = "L36" /\ i < XLen(x) /\ MapA("L36", i + 1)

\* Lines 37-40, at the end of the list.
L37 ==
  /\ pc = "L36" /\ i = XLen(x)
  /\ pc' = "L42"
  /\ UNCHANGED <<n, rt, x, i, j, k, r, gap, r75min, r50min, den, disc, y, dec, arg, call>>

\* Lines 42-44.
L42 ==
  /\ pc = "L42"
  /\ n' = 10000000 /\ x' = Range(3, 10000000, 2) /\ i' = 0 /\ pc' = "L45"
  /\ UNCHANGED <<rt, j, k, r, gap, r75min, r50min, den, disc, y, dec, arg, call>>

\* Line 45, one element; the elements between the first PlotCap and the
\* last PlotCap are passed over.
L45 ==
  /\ pc = "L45" /\ i < XLen(x)
  /\ MapA("L45", IF i + 1 = PlotCap /\ XLen(x) > 2 * PlotCap
                   THEN XLen(x) - PlotCap ELSE i + 1)

\* Lines 46-51, at the end of the list.
L46 ==
  /\ pc = "L45" /\ i = XLen(x)
  /\ pc' = "L56"
  /\ UNCHANGED <<n, rt, x, i, j, k, r, gap, r75min, r50min, den, disc, y, dec, arg, call>>

\* Lines 56-57.
L56 ==
  /\ pc = "L56"
  /\ x' = Range(0, 8000, 4) /\ j' = 0 /\ pc' = "L59"
  /\ UNCHANGED <<n, rt, i, k, r, gap, r75min, r50min, den, disc, y, dec, arg, call>>

\* Lines 59-60: the next n of the loop and its square root.
L59 ==
  /\ pc = "L59" /\ j < Len(LoopN)
  /\ n' = LoopN[j + 1] /\ rt' = NpSqrt(FFromInt(LoopN[j + 1]))
  /\ i' = 0 /\ pc' = "L61"
  /\ UNCHANGED <<x, j, k, r, gap, r75min, r50min, den, disc, y, dec, arg, call>>

\* Line 61, one element: lambda k: n/b(rt, k).
L61 ==
  /\ pc = "L61" /\ i < XLen(x)
  /\ den' = b(rt, XAt(x, i)) /\ disc' = SqrtArg(rt, XAt(x, i))
  /\ y' = NpDiv(FFromInt(n), den')
  /\ i' = i + 1
  /\ UNCHANGED <<pc, n, rt, x, j, k, r, gap, r75min, r50min, dec, arg, call>>

\* Line 62, at the end of the list, and back to line 59.
L62 ==
  /\ pc = "L61" /\ i = XLen(x)
  /\ j' = j + 1 /\ pc' = "L59"
  /\ UNCHANGED <<n, rt, x, i, k, r, gap, r75min, r50min, den, disc, y, dec, arg, call>>

\* Lines 64-66, after the loop.
L64 ==
  /\ pc = "L59" /\ j = Len(LoopN)
  /\ pc' = "L69"
  /\ UNCHANGED <<n, rt, x, i, j, k, r, gap, r75min, r50min, den, disc, y, dec, arg, call>>

\* Line 69.
L69 ==
  /\ pc = "L69"
  /\ den' = b(NpSqrt(FFromInt(7500000)), 0)
  /\ disc' = SqrtArg(NpSqrt(FFromInt(7500000)), 0)
  /\ r75min' = NpDiv(FFromInt(7500000), den')
  /\ pc' = "L70"
  /\ UNCHANGED <<n, rt, x, i, j, k, r, gap, r50min, y, dec, arg, call>>

\* Line 70.
L70 ==
  /\ pc = "L70"
  /\ den' = b(NpSqrt(FFromInt(5000000)), 0)
  /\ disc' = SqrtArg(NpSqrt(FFromInt(5000000)), 0)
  /\ r50min' = NpDiv(FFromInt(5000000), den')
  /\ pc' = "L74"
  /\ UNCHANGED <<n, rt, x, i, j, k, r, gap, r75min, y, dec, arg, call>>

\* Lines 74-76, and the start of the for loop of line 78.
L74 ==
  /\ pc = "L74"
  /\ n' = 10000000 /\ rt' = NpSqrt(FFromInt(10000000)) /\ gap' = None
  /\ i' = 0 /\ pc' = "L78"
  /\ UNCHANGED <<x, j, k, r, r75min, r50min, den, disc, y, dec, arg, call>>

\* for k in ...: (lines 78 and 89): the next element, or the end of the loop.
ForK(here, body, after) ==
  /\ pc = here
  /\ IF i < XLen(x)
       THEN k' = XAt(x, i) /\ i' = i + 1 /\ pc' = body
       ELSE pc' = after /\ UNCHANGED <<k, i>>
  /\ UNCHANGED <<n, rt, x, j, r, gap, r75min, r50min, den, disc, y, dec, arg, call>>

\* r = n/b(rt, k) (lines 79 and 90).
SetR(here, next) ==
  /\ pc = here
  /\ den' = b(rt, k) /\ disc' = SqrtArg(rt, k) /\ r' = NpDiv(FFromInt(n), den')
  /\ dec' = 0 /\ pc' = next
  /\ UNCHANGED <<n, rt, x, i, j, k, gap, r75min, r50min, y, arg, call>>

\* if r > ref: (lines 80 and 91).
IfAbove(here, ref, yes, no) ==
  /\ pc = here
  /\ pc' = IF Above(r, ref) THEN yes ELSE no
  /\ UNCHANGED <<n, rt, x, i, j, k, r, gap, r75min, r50min, den, disc, y, dec, arg, call>>

\* while r > ref: k -= 2; r = n/b(rt, k) (lines 81-83 and 92-94).
WhileAbove(here, ref, after) ==
  /\ pc = here
  /\ IF Above(r, ref)
       THEN /\ k' = StepBack(k)
            /\ den' = b(rt, StepBack(k)) /\ disc' = SqrtArg(rt, StepBack(k))
            /\ r' = NpDiv(FFromInt(n), den')
            /\ dec' = dec + 1
            /\ UNCHANGED pc
       ELSE pc' = after /\ UNCHANGED <<k, den, disc, r, dec>>
  /\ UNCHANGED <<n, rt, x, i, j, gap, r75min, r50min, y, arg, call>>

\* gap = k; break (lines 84-85 and 95-96).
SetGap(here, after) ==
  /\ pc = here
  /\ gap' = <<k>> /\ pc' = after
  /\ UNCHANGED <<n, rt, x, i, j, k, r, r75min, r50min, den, disc, y, dec, arg, call>>

L78 == ForK("L78", "L79", "L86")
L79 == SetR("L79", "L80")
L80 == IfAbove("L80", r75min, "L81", "L78")
L81 == WhileAbove("L81", r75min, "L84")
L84 == SetGap("L84", "L86")

\* Lines 86-87.
L86 ==
  /\ pc = "L86"
  /\ pc' = "L89"
  /\ UNCHANGED <<n, rt, x, i, j, k, r, gap, r75min, r50min, den, disc, y, dec, arg, call>>

\* x[gap//4:] of line 89: a TypeError when gap is None.
L89 ==
  /\ pc = "L89"
  /\ IF gap = None
       THEN pc' = "fault" /\ UNCHANGED i
       ELSE pc' = "L89for" /\ i' = SliceStart(x, GapIndex(gap[1]))
  /\ UNCHANGED <<n, rt, x, j, k, r, gap, r75min, r50min, den, disc, y, dec, arg, call>>

L89for == ForK("L89for", "L90", "L97")
L90 == SetR("L90", "L91")
L91 == IfAbove("L91", r50min, "L92", "L89for")
L92 == WhileAbove("L92", r50min, "L95")
L95 == SetGap("L95", "L97")

\* Lines 97-102.
L97 ==
  /\ pc = "L97"
  /\ pc' = "done"
  /\ UNCHANGED <<n, rt, x, i, j, k, r, gap, r75min, r50min, den, disc, y, dec, arg, call>>

\* Lines 68-102.
NextScan ==
  \/ L69 \/ L70 \/ L74
  \/ L78 \/ L79 \/ L80 \/ L81 \/ L84 \/ L86
  \/ L89 \/ L89for \/ L90 \/ L91 \/ L92 \/ L95 \/ L97

Next ==
  \/ L33 \/ L36 \/ L37 \/ L42 \/ L45 \/ L46
  \/ L56 \/ L59 \/ L61 \/ L62 \/ L64
  \/ NextScan

Spec == Init /\ [][Next]_vars

\* Lines 68-102 alone, from the state in which line 66 leaves the script.
InitScan ==
  /\ pc = "L69"
  /\ n = 5000000 /\ rt = NpSqrt(FFromInt(5000000)) /\ x = Range(0, 8000, 4)
  /\ i = 2000 /\ j = 3 /\ k = None
  /\ r = None /\ gap = None /\ r75min = None /\ r50min = None
  /\ den = b(NpSqrt(FFromInt(5000000)), 7996)
  /\ disc = SqrtArg(NpSqrt(FFromInt(5000000)), 7996)
  /\ y = Ratio(5000000, NpSqrt(FFromInt(5000000)), 7996)
  /\ dec = 0 /\ arg = None /\ call = None

SpecScan == InitScan /\ [][NextScan]_vars

(***************************************************************************)
(* Single calls of a, p1p2 and b.  arg holds the arguments, drawn from the *)
(* sets below; call holds the arguments and the result.                    *)
(***************************************************************************)
MaxM == 10
MaxAK == 4
MaxN == 12
MaxK == 6

\* The values of n and some of the values of k of lines 59-96.
ScriptN == {10000000, 7500000, 5000000}
ScriptK == {3648, 3650, 3652, 6320, 6322, 6324, 7996}

ArgsA == [f : {"a"}, m : 1..MaxM, k : 1..MaxAK]
ArgsP == [f : {"p"}, n : (1..MaxN) \cup ScriptN, k : (0..MaxK) \cup ScriptK]
ArgsB2 ==
  {t \in [f : {"b2"}, n : (1..MaxN) \cup ScriptN,
          g1 : (0..MaxN) \cup ScriptK, g2 : (0..MaxN) \cup ScriptK \cup {9999998}] :
     t.g1 < t.g2 /\ t.g2 < t.n - 1}

InitFn ==
  /\ pc = "call"
  /\ n = None /\ rt = None /\ x = None /\ i = 0 /\ j = 0 /\ k = None
  /\ r = None /\ gap = None /\ r75min = None /\ r50min = None
  /\ den = None /\ disc = None /\ y = None /\ dec = 0
  /\ arg \in ArgsA \cup ArgsP \cup ArgsB2
  /\ call = None

Returns(c) ==
  /\ pc = "call" /\ pc' = "return" /\ call' = c
  /\ UNCHANGED <<n, rt, x, i, j, k, r, gap, r75min, r50min, den, disc, y, dec, arg>>

\* a(n) of lines 36 and 45: k is left out and is 2.
ADefault(nn) == a(nn, 2)

\* a(n, k) for n = m^k.
CallA ==
  /\ arg.f = "a"
  /\ Returns([f |-> "a", m |-> arg.m, k |-> arg.k,
              res |-> a(FFromInt(arg.m ^ arg.k), arg.k)])

\* a(n) for n = m^2.
CallADefault ==
  /\ arg.f = "a" /\ arg.k = 2
  /\ Returns([f |-> "a_", m |-> arg.m, res |-> ADefault(FFromInt(arg.m ^ 2))])

\* p1p2(rt, k) for rt = np.sqrt(n).
CallP1p2 ==
  /\ arg.f = "p"
  /\ Returns([f |-> "p1p2", n |-> arg.n, rt |-> NpSqrt(FFromInt(arg.n)), k |-> arg.k,
              res |-> p1p2(NpSqrt(FFromInt(arg.n)), arg.k)])

\* b(rt, gap) for rt = np.sqrt(n).
CallB ==
  /\ arg.f = "p"
  /\ Returns([f |-> "b", n |-> arg.n, rt |-> NpSqrt(FFromInt(arg.n)), k |-> arg.k,
              res |-> b(NpSqrt(FFromInt(arg.n)), arg.k)])

\* b(rt, g1) and b(rt, g2) for rt = np.sqrt(n) and g1 < g2 < n - 1.
CallB2 ==
  /\ arg.f = "b2"
  /\ Returns([f |-> "b2", n |-> arg.n, g1 |-> arg.g1, g2 |-> arg.g2,
              res1 |-> b(NpSqrt(FFromInt(arg.n)), arg.g1),
              res2 |-> b(NpSqrt(FFromInt(arg.n)), arg.g2)])

NextFn == CallA \/ CallADefault \/ CallP1p2 \/ CallB \/ CallB2

SpecFn == InitFn /\ [][NextFn]_vars

(***************************************************************************)
(* Expressions of the claims, evaluated as Python evaluates them.          *)
(***************************************************************************)
\* x is the square of a float: its square root is exact.
IsSquare(f) ==
  /\ IsFin(f) /\ ~f.neg
  /\ \/ IsZero(f)
     \/ LET s == FSqrtFin(f)
            sq == NMul(s.m, s.m)
            d == 2 * s.e - f.e
        IN  IF d >= 0 THEN NShl(sq, d) = f.m ELSE sq = NShl(f.m, -d)

\* x is a whole number.
IsWhole(f) ==
  /\ IsFin(f)
  /\ IsZero(f) \/ f.e >= 0 \/ (-f.e < MantBits /\ NLow(f.m, -f.e) = <<>>)

\* abs(u - v) <= 2^e * scale.
Within(u, v, e, scale) == FLe(FAbs(FSub(u, v)), FMul(FTwoPow(e), scale))

\* p1*p2 and rt*rt for the pair of a call of p1p2.
Prod(c) == FMul(c.res[1], c.res[2])
RtRt(c) == FMul(c.rt, c.rt)

\* C1 as claimed: for every rt > 0 and k >= 0, p1*p2 == rt*rt, exactly when
\* the discriminant b*b + 4*k*rt is a perfect square and within floating
\* tolerance otherwise.
C1_AsClaimed ==
  (call # None /\ call.f = "p1p2") =>
    IF IsSquare(Disc(call.rt, call.k))
      THEN Prod(call) = RtRt(call)
      ELSE Within(Prod(call), RtRt(call), -50, Disc(call.rt, call.k))

\* C1, amended: for every rt > 0 and k >= 0, p1*p2 equals rt*rt within
\* floating tolerance (2^-50 of the discriminant), and exactly when rt is a
\* whole number and the discriminant is a perfect square.
C1_ProductIsRtSquared ==
  (call # None /\ call.f = "p1p2") =>
    /\ Within(Prod(call), RtRt(call), -50, Disc(call.rt, call.k))
    /\ (IsWhole(call.rt) /\ IsSquare(Disc(call.rt, call.k))) =>
         Prod(call) = RtRt(call)

\* A call with a whole rt, a gap and a perfect-square discriminant, whose
\* product is exact.
C1_Witness ==
  /\ call # None /\ call.f = "p1p2" /\ call.k > 0
  /\ IsWhole(call.rt) /\ IsSquare(Disc(call.rt, call.k))
  /\ Prod(call) = RtRt(call)

\* C2 as claimed: for every rt > 0 and k >= 0, p2 - p1 == k and
\* p1 <= rt <= p2, and p1p2(rt, 0) is (rt, rt).
C2_AsClaimed ==
  (call # None /\ call.f = "p1p2") =>
    /\ FSub(call.res[2], call.res[1]) = FFromInt(call.k)
    /\ FLe(call.res[1], call.rt) /\ FLe(call.rt, call.res[2])
    /\ call.k = 0 => call.res = <<call.rt, call.rt>>

\* C2, amended: for every rt > 0 and k >= 0, p2 - p1 equals k within
\* floating tolerance (2^-49 of 2*rt + k), p1 <= rt <= p2, and p1p2(rt, 0)
\* is exactly (rt, rt).
C2_GapAndOrder ==
  (call # None /\ call.f = "p1p2") =>
    /\ Within(FSub(call.res[2], call.res[1]), FFromInt(call.k), -49,
              FAdd(FMul(FFromInt(2), call.rt), FFromInt(call.k)))
    /\ FLe(call.res[1], call.rt) /\ FLe(call.rt, call.res[2])
    /\ call.k = 0 => call.res = <<call.rt, call.rt>>

\* A call with a gap whose p2 - p1 is not k, and one without a gap.
C2_Witness ==
  /\ call # None /\ call.f = "p1p2" /\ call.k > 0
  /\ FSub(call.res[2], call.res[1]) # FFromInt(call.k)
  /\ FLt(call.res[1], call.rt) /\ FLt(call.rt, call.res[2])

\* k is a power of two: 1/k is exact, and so is the k-th root of m^k.
IsPowerOfTwo(kk) == \E e \in 0..6 : kk = 2 ^ e

Expanded(r_, kk) ==
  FAdd(FSub(FMul(r_, r_), FAdd(p1p2(r_, kk)[1], p1p2(r_, kk)[2])), FOne)

\* (p1-1)*(p2-1) for the pair of p1p2(rt, k).
Factored(r_, kk) ==
  FMul(FSub(p1p2(r_, kk)[1], FOne), FSub(p1p2(r_, kk)[2], FOne))

\* C4 as claimed: b(rt, gap) is (p1-1)*(p2-1) for the pair of p1p2(rt, gap),
\* so b(rt, gap) == rt*rt - (p1 + p2) + 1, and b(rt, 0) == (rt - 1)^2 ==
\* a(rt*rt, 2).
C4_AsClaimed ==
  (call # None /\ call.f = "b") =>
    /\ call.res = Factored(call.rt, call.k)
    /\ call.res = Expanded(call.rt, call.k)
    /\ call.k = 0 =>
         /\ call.res = PyPowInt(FSub(call.rt, FOne), 2)
         /\ call.res = a(FMul(call.rt, call.rt), 2)

\* C4, amended: b(rt, gap) is (p1-1)*(p2-1) for the pair of p1p2(rt, gap);
\* it equals rt*rt - (p1 + p2) + 1 within floating tolerance (2^-48 of the
\* discriminant plus one); and b(rt, 0) == (rt - 1)^2 == a(rt*rt, 2) exactly.
C4_BFromPair ==
  (call # None /\ call.f = "b") =>
    /\ call.res = Factored(call.rt, call.k)
    /\ Within(call.res, Expanded(call.rt, call.k), -48,
              FAdd(Disc(call.rt, call.k), FOne))
    /\ call.k = 0 =>
         /\ call.res = PyPowInt(FSub(call.rt, FOne), 2)
         /\ call.res = a(FMul(call.rt, call.rt), 2)

\* b(rt, 0) for rt = sqrt(7500000), which is a(rt*rt, 2).
C4_Witness ==
  /\ call # None /\ call.f = "b"
  /\ call.k = 0 /\ call.n = 7500000
  /\ call.res = a(FMul(call.rt, call.rt), 2)

\* C7: for a fixed n and rt = sqrt(n), b(rt, g1) >= b(rt, g2) > 0 for all
\* 0 <= g1 < g2 < n - 1, hence n/b(rt, g1) <= n/b(rt, g2): the ratio is
\* least at gap 0, as r75min and r50min are taken.
C7_RatioGrowsWithGap ==
  (call # None /\ call.f = "b2") =>
    /\ FGe(call.res1, call.res2)
    /\ FGt(call.res2, FZero)
    /\ FLe(NpDiv(FFromInt(call.n), call.res1), NpDiv(FFromInt(call.n), call.res2))

\* For n = 7500000 the ratio at gap 0 is below the ratio at gap 7996.
C7_Witness ==
  /\ call # None /\ call.f = "b2"
  /\ call.n = 7500000 /\ call.g1 = 0 /\ call.g2 = 7996
  /\ FLt(NpDiv(FFromInt(call.n), call.res1), NpDiv(FFromInt(call.n), call.res2))

(***************************************************************************)
(* The scans of lines 78-85 and 89-96 as functions of the list, the first  *)
(* index and the reference: what the loop leaves in gap (None when no      *)
(* element is above the reference and the loop body never assigns).        *)
(***************************************************************************)
\* while r > ref: k -= 2; r = n/b(rt, k), from k on: the k it stops at.
RECURSIVE BackFrom(_, _, _, _)
BackFrom(nn, r_, kk, ref) ==
  IF Above(Ratio(nn, r_, kk), ref) THEN BackFrom(nn, r_, StepBack(kk), ref)
  ELSE kk

\* The least element of a non-empty set of ints.
Least(S) == CHOOSE v \in S : \A w \in S : v <= w

\* The loop over xs[from:]: the first element above ref, stepped back.
ScanFrom(nn, r_, xs, from, ref) ==
  Only({IF hits = {} THEN None ELSE <<BackFrom(nn, r_, XAt(xs, Least(hits)), ref)>> :
          hits \in {{ix \in from..(XLen(xs) - 1) :
                       Above(Ratio(nn, r_, XAt(xs, ix)), ref)}}})

\* gap is the largest even gap whose ratio is not above ref: no even gap up
\* to it is above, and the next even gap is.
GapIsLargest(ref) ==
  /\ gap # None
  /\ \A kk \in 0..gap[1] : kk % 2 = 0 => ~Above(Ratio(n, rt, kk), ref)
  /\ Above(Ratio(n, rt, gap[1] + 2), ref)

\* C5: each scan (n = 10^7 against r75min, then against r50min) ends with
\* the largest gap whose ratio is not above the reference: the ratio at the
\* resulting gap g and at every smaller even gap is not above it, and the
\* ratio at g + 2 is.
C5_ScanFindsLargestGap ==
  /\ pc = "L86" => GapIsLargest(r75min)
  /\ pc = "L97" => GapIsLargest(r50min)

\* The first scan has ended with its gap, 3650.
C5_Witness == pc = "L86" /\ gap = <<3650>> /\ ~Above(r, r75min)

\* C8: both scans end with a threshold found: no exception is raised, each
\* for loop stays within its list, and gap is an int, never None, where
\* gap//4 and the plot calls use it; each inner while loop steps back at
\* most twice and k never becomes negative, the ratio at k = 0 for n = 10^7
\* being below both references.
C8_ScansTerminate ==
  /\ pc # "fault"
  /\ i <= XLen(x)
  /\ pc \in {"L86", "L89", "L89for", "L97", "done"} => gap # None
  /\ dec <= 2
  /\ pc \in {"L79", "L80", "L81", "L84", "L90", "L91", "L92", "L95"} => k >= 0
  /\ (pc = "L78" /\ i = 0) =>
       /\ FLt(Ratio(n, rt, 0), r75min)
       /\ FLt(Ratio(n, rt, 0), r50min)

\* The script has ended, the second scan having stepped back once.
C8_Witness == pc = "done" /\ gap # None /\ dec = 1 /\ k = gap[1]

\* C9: the second scan, over x[gap//4:], leaves in gap what a scan of all of
\* x against r50min leaves, and the second gap is not below the first.
C9_SliceScanIsFullScan ==
  /\ [](pc = "L97" => gap = ScanFrom(n, rt, x, 0, r50min))
  /\ [][pc = "L95" => gap'[1] >= gap[1]]_vars

\* The second scan has ended with its gap, 6322, having started at index 912.
C9_Witness == pc = "L97" /\ gap = <<6322>> /\ i > GapIndex(3650)

\* 4*rt^2 + k^2 for the call of p1p2 recorded in disc.
SumOfSquares(c) ==
  FAdd(FMul(FFromInt(4), FMul(c.rt, c.rt)), FFromInt(c.k * c.k))

=============================================================================
